---- MODULE Spec2Model ----
(***************************************************************************)
(* Model of franka::Robot (src/src/robot.cpp): the session guard           *)
(* control_mutex_, the session entry points (control(...), read,           *)
(* readOnce), the read loops they run, and the one-shot configuration      *)
(* commands.  Threads call the public methods of one Robot handle in any   *)
(* interleaving.  ControlLoop and MotionGeneratorLoop are declared in      *)
(* control_loop.h and motion_generator_loop.h; their cycle is modelled     *)
(* from the design description.  Spec covers the session entry points and  *)
(* the configuration commands of one handle; MoveSpec covers the move      *)
(* constructor and move assignment over several handles.                   *)
(***************************************************************************)
EXTENDS Integers, Sequences, FiniteSets, TLC

\* ---------------------------------------------------------------- bounds
\* Number of caller threads sharing the handle.
NumThreads == 2
\* Longest session modelled, in cycles: a callback may ask for another
\* cycle only while fewer than MaxCycles states have been received.
MaxCycles == 3
\* Most failed start attempts counted between two releases of the guard.
MaxBusy == 2

Threads == 1..NumThreads
\* Value of control_mutex_ when no thread owns it.
NoThread == 0

\* ------------------------------------------------------------ value sets
\* franka::ControllerMode values a caller can pass: the two enumerators the
\* switch names and one standing for every other value (the default branch).
ControllerModeValues == {"kJointImpedance", "kCartesianImpedance", "kOtherMode"}

\* research_interface::robot::ControllerMode values a robot state reports.
ReportedModes == {"kJointImpedance", "kCartesianImpedance", "kOtherMode"}

\* Replies of the controller to a one-shot command.
CommandReplies == {"success", "rejected", "network_error"}

\* What a state receive yields: a state reporting one of the modes, or a
\* fault of the channel.
ReceiveOutcomes == ReportedModes \cup {"fault"}

NoState == [id |-> 0, controller_mode |-> "none"]

\* The k-th state of a session, reporting mode m.  Only the sessions that
\* requested a controller mode read the mode tag; the others keep the state
\* without it.
State(k, m, tagged) == [id |-> k, controller_mode |-> IF tagged THEN m ELSE "unread"]

\* The frame of a thread that is in no public method.
NoCall ==
    [op |-> "none", controller_mode |-> "none", mode |-> "none",
     state_controller_mode |-> "none",
     robot_state |-> NoState, torque_finished |-> FALSE, motion_finished |-> FALSE,
     command_valid |-> TRUE]

VARIABLES
    control_mutex_,   \* Robot::control_mutex_: the owning thread, or NoThread
    pc,               \* pc[t]: the statement thread t is at
    call,             \* call[t]: arguments and locals of t's current call
    result,           \* result[t]: how t's last call ended: "returned", "threw",
                      \* "InvalidOperationException" (the guard was owned), or
                      \* "none" while it runs
    obs,              \* what the channel and the callbacks have seen since the
                      \* guard was last acquired
    window,           \* start attempts since the guard was last released
    robots,           \* MoveSpec: robots[h], the handle h: whether it is
                      \* constructed, its control_mutex_ and its impl_
    movers            \* MoveSpec: movers[t], thread t's call on the handles

vars == <<control_mutex_, pc, call, result, obs, window, robots, movers>>

\* Handles a(address), b(address), each with its own guard and
\* implementation object, and c, the storage of a handle a thread may
\* construct by move.
Handles == {"a", "b", "c"}
\* The handles move assignment is called on; c is moved into by its
\* constructor and is not assigned afterwards.
Assigned == {"a", "b"}
\* impl_ of a handle that was moved from.
NoImpl == "null"
\* A thread that is in no call on the handles.
NoMove ==
    [pc |-> "idle", op |-> "none", this |-> "none", other |-> "none",
     first |-> "none", impl |-> "none", receives |-> 0, result |-> "none"]

\* Observation record of the session thread t has just started from entry
\* point o with controller mode m:
\*   outcome             "running", or how the session ended
\*   receives, faults    state receives attempted / of them, channel faults
\*   last_mode           mode reported by the last state received
\*   callbacks           invocations of read_callback; cb_arg, cb_mode: the id
\*                       and mode of its last argument; last_ret: what it returned
\*   mode_cmds           SetControllerMode requests sent
\*   sends, terminal     commands sent / of them, terminal commands
\*   torque_calls, motion_calls, torque_finishes, motion_finishes
\*                       invocations and finish signals of the loop callbacks
\*   released            unlocks of the guard by the session
\*   config_interleaved  a configuration request went out while the guard was owned
NewObs(t, o, m) ==
    [thread |-> t, op |-> o, requested |-> m, outcome |-> "running",
     receives |-> 0, faults |-> 0, last_mode |-> "none",
     callbacks |-> 0, cb_arg |-> 0, cb_mode |-> "none", last_ret |-> "none",
     mode_cmds |-> 0, sends |-> 0, terminal |-> 0,
     torque_calls |-> 0, motion_calls |-> 0, torque_finishes |-> 0, motion_finishes |-> 0,
     released |-> 0, config_interleaved |-> FALSE]

Init ==
    /\ control_mutex_ = NoThread
    /\ pc = [t \in Threads |-> "idle"]
    /\ call = [t \in Threads |-> NoCall]
    /\ result = [t \in Threads |-> "none"]
    /\ obs = NewObs(NoThread, "none", "none")
    /\ window = [succ |-> 0, busy |-> 0]
    /\ robots = [h \in Handles |->
                    IF h = "c"
                    THEN [state |-> "raw", control_mutex_ |-> NoThread, impl_ |-> NoImpl]
                    ELSE [state |-> "alive", control_mutex_ |-> NoThread, impl_ |-> h]]
    /\ movers = [t \in Threads |-> NoMove]

\* No call on the handles of MoveSpec happens.
OneHandle == UNCHANGED <<robots, movers>>

\* ------------------------------------------------------- the session guard
\* std::unique_lock<std::mutex> l(control_mutex_, std::try_to_lock);
\* l.owns_lock() afterwards: the lock was taken iff no thread owned the mutex.
owns_lock_always == TRUE
owns_lock == control_mutex_ = NoThread

\* ~unique_lock at scope exit (return or unwinding) of thread t's session:
\* the value of control_mutex_ afterwards.
ScopeExit_leak(t) == control_mutex_
ScopeExit(t) == IF control_mutex_ = t THEN NoThread ELSE control_mutex_

InSession(t) == pc[t] \notin {"idle", "config_response"}

Inc(n, cap) == IF n < cap THEN n + 1 ELSE n

\* if (!l.owns_lock()) throw InvalidOperationException(...): nothing else
\* happens in the call.
TryLockFailed_sends(t) ==
    /\ result' = [result EXCEPT ![t] = "InvalidOperationException"]
    /\ obs' = [obs EXCEPT !.mode_cmds = Inc(@, 2)]
    /\ UNCHANGED <<control_mutex_, pc, call>>
TryLockFailed(t) ==
    /\ result' = [result EXCEPT ![t] = "InvalidOperationException"]
    /\ UNCHANGED <<control_mutex_, pc, call, obs>>

\* The first statements of every session entry point: try the guard; throw
\* when it is owned, else enter the body at statement `first` with frame `frame`.
SessionEntry(t, frame, first) ==
    /\ pc[t] = "idle"
    /\ IF owns_lock
       THEN /\ control_mutex_' = t
            /\ pc' = [pc EXCEPT ![t] = first]
            /\ call' = [call EXCEPT ![t] = frame]
            /\ result' = [result EXCEPT ![t] = "none"]
            /\ obs' = NewObs(t, frame.op, frame.controller_mode)
            /\ window' = [window EXCEPT !.succ = Inc(@, 2)]
       ELSE /\ window.busy < MaxBusy
            /\ TryLockFailed(t)
            /\ window' = [window EXCEPT !.busy = @ + 1]

\* What the caller sees of a call that ended with `outcome`.
Seen(outcome) == IF outcome = "returned" THEN "returned" ELSE "threw"

\* A session of thread t ends with `outcome` (a return or a thrown exception):
\* its frame is destroyed and the unique_lock releases the guard.
SessionExit(t, outcome, o) ==
    /\ control_mutex_' = ScopeExit(t)
    /\ pc' = [pc EXCEPT ![t] = "idle"]
    /\ call' = [call EXCEPT ![t] = NoCall]
    /\ result' = [result EXCEPT ![t] = Seen(outcome)]
    /\ obs' = [o EXCEPT !.outcome = outcome,
                        !.released = IF ScopeExit(t) # control_mutex_ THEN Inc(@, 2) ELSE @]
    /\ window' = IF ScopeExit(t) = NoThread THEN [succ |-> 0, busy |-> 0] ELSE window

\* ------------------------------------------ control(ControllerMode, read_callback)
\* The entry points that take a controller mode.
HasMode(o) == o \in {"control_read", "control_motion_mode"}

\* The switch over controller_mode: the default branch throws.
ModeValid_nodefault(m) == TRUE
ModeValid(m) == m \in {"kJointImpedance", "kCartesianImpedance"}

\* The SetControllerMode argument `mode` the switch assigns.
SetControllerModeArg(m) ==
    CASE m = "kJointImpedance" -> "kJointImpedance"
      [] m = "kCartesianImpedance" -> "kCartesianImpedance"
      [] OTHER -> "unset"

\* The expected reported mode `state_controller_mode` the switch assigns.
StateControllerMode_swapped(m) ==
    CASE m = "kJointImpedance" -> "kCartesianImpedance"
      [] m = "kCartesianImpedance" -> "kJointImpedance"
      [] OTHER -> "unset"
StateControllerMode(m) ==
    CASE m = "kJointImpedance" -> "kJointImpedance"
      [] m = "kCartesianImpedance" -> "kCartesianImpedance"
      [] OTHER -> "unset"

\* The same entry with the switch moved in front of the guard.
ControlRead_validatefirst(t, m) ==
    IF ModeValid(m)
    THEN SessionEntry(t, [NoCall EXCEPT !.op = "control_read", !.controller_mode = m],
                      "switch")
    ELSE /\ pc[t] = "idle"
         /\ result' = [result EXCEPT ![t] = "threw"]
         /\ UNCHANGED <<control_mutex_, pc, call, obs, window>>

\* Entry of control(controller_mode, read_callback).
ControlRead(t, m) ==
    SessionEntry(t, [NoCall EXCEPT !.op = "control_read", !.controller_mode = m], "switch")

\* The switch statement: sets mode and state_controller_mode, or throws
\* std::invalid_argument.
Switch(t) ==
    /\ pc[t] = "switch"
    /\ IF ModeValid(call[t].controller_mode)
       THEN /\ pc' = [pc EXCEPT ![t] = "executeCommand"]
            /\ call' = [call EXCEPT
                  ![t].mode = SetControllerModeArg(call[t].controller_mode),
                  ![t].state_controller_mode = StateControllerMode(call[t].controller_mode)]
            /\ UNCHANGED <<control_mutex_, result, obs, window>>
       ELSE SessionExit(t, "invalid_argument", obs)

\* impl_->executeCommand<SetControllerMode>(mode): the request goes out.
ExecuteCommandRequest(t) ==
    /\ pc[t] = "executeCommand"
    /\ pc' = [pc EXCEPT ![t] = "awaitResponse"]
    /\ obs' = [obs EXCEPT !.mode_cmds = Inc(@, 2)]
    /\ UNCHANGED <<control_mutex_, call, result, window>>

\* Where a session goes once its mode-set command succeeded.
AfterModeSet(o) == IF o = "control_read" THEN "update" ELSE "loop_update"

\* impl_->executeCommand<SetControllerMode>(mode): the reply arrives; a
\* rejection or a network fault is thrown through the session.
ExecuteCommandResponse(t, r) ==
    /\ pc[t] = "awaitResponse"
    /\ CASE r = "success" ->
              /\ pc' = [pc EXCEPT ![t] = AfterModeSet(call[t].op)]
              /\ UNCHANGED <<control_mutex_, call, result, obs, window>>
         [] r = "rejected" -> SessionExit(t, "CommandException", obs)
         [] OTHER -> SessionExit(t, "NetworkException", obs)

\* The observation after the session of thread t received a state reporting
\* mode m, and after a receive that faulted.
Received(t, m) ==
    [obs EXCEPT !.receives = @ + 1,
                !.last_mode = State(0, m, HasMode(call[t].op)).controller_mode]
Faulted == [obs EXCEPT !.receives = @ + 1, !.faults = Inc(@, 2)]

\* A fault of the channel inside impl_->update...() is an exception that
\* leaves the session: nothing catches it.
ReceiveFault_retry(t, o) ==
    /\ obs' = o
    /\ UNCHANGED <<control_mutex_, pc, call, result, window>>
ReceiveFault(t, o) == SessionExit(t, "NetworkException", o)

\* What follows a received state: the mode check in control, the callback in read.
AfterUpdate(o) == IF o = "control_read" THEN "check" ELSE "callback"

\* impl_->updateWithoutConversion() / impl_->update(): one state arrives,
\* reporting any controller mode, or the channel faults.
Update(t, m) ==
    /\ pc[t] = "update"
    /\ IF m # "fault"
       THEN /\ call' = [call EXCEPT ![t].robot_state =
                            State(obs.receives + 1, m, HasMode(call[t].op))]
            /\ pc' = [pc EXCEPT ![t] = AfterUpdate(call[t].op)]
            /\ obs' = Received(t, m)
            /\ UNCHANGED <<control_mutex_, result, window>>
       ELSE ReceiveFault(t, Faulted)

\* if (robot_state.controller_mode != state_controller_mode) throw ControlException
ModeChanged(t) == call[t].robot_state.controller_mode # call[t].state_controller_mode

CheckMode(t) ==
    /\ pc[t] = "check"
    /\ IF ModeChanged(t)
       THEN SessionExit(t, "ControlException", obs)
       ELSE /\ pc' = [pc EXCEPT ![t] = "callback"]
            /\ UNCHANGED <<control_mutex_, call, result, obs, window>>

\* The observation after read_callback was invoked with thread t's state
\* and answered ret.
Invoked(t, ret) ==
    [obs EXCEPT !.callbacks = @ + 1,
                !.cb_arg = call[t].robot_state.id,
                !.cb_mode = call[t].robot_state.controller_mode,
                !.last_ret = ret]

\* if (!read_callback(...)) break;  the loop goes on iff the callback
\* returned true.
Continue_inverted(ret) == ret = "false"
Continue(ret) == ret = "true"

\* while (true) { ... }: the statement an iteration starts with.
WhileBody_resend(o) == IF o = "control_read" THEN "executeCommand" ELSE "update"
WhileBody(o) == "update"

\* The same loop with an iteration limit of its own: it returns after the
\* second invocation whatever the callback answered.
ReadCallback_limit(t, ret) ==
    /\ pc[t] = "callback"
    /\ IF ret = "throw"
       THEN SessionExit(t, "callback_exception", Invoked(t, ret))
       ELSE IF Continue(ret) /\ obs.callbacks < 1
       THEN /\ obs.receives < MaxCycles
            /\ pc' = [pc EXCEPT ![t] = WhileBody(call[t].op)]
            /\ call' = [call EXCEPT ![t].robot_state = NoState]
            /\ obs' = Invoked(t, ret)
            /\ UNCHANGED <<control_mutex_, result, window>>
       ELSE SessionExit(t, "returned", Invoked(t, ret))

\* The callback is invoked with the state just received; it returns true or
\* false, or throws.
ReadCallback(t, ret) ==
    /\ pc[t] = "callback"
    /\ IF ret = "throw"
       THEN SessionExit(t, "callback_exception", Invoked(t, ret))
       ELSE IF Continue(ret)
       THEN /\ obs.receives < MaxCycles
            /\ pc' = [pc EXCEPT ![t] = WhileBody(call[t].op)]
            /\ call' = [call EXCEPT ![t].robot_state = NoState]
            /\ obs' = Invoked(t, ret)
            /\ UNCHANGED <<control_mutex_, result, window>>
       ELSE SessionExit(t, "returned", Invoked(t, ret))

\* ---------------------------------------------------------- read / readOnce
Read(t) ==
    SessionEntry(t, [NoCall EXCEPT !.op = "read"], "update")

ReadOnce(t) ==
    SessionEntry(t, [NoCall EXCEPT !.op = "readOnce"], "readOnce")

\* return impl_->readOnce();
ReadOnceReceive(t, ok) ==
    /\ pc[t] = "readOnce"
    /\ IF ok
       THEN SessionExit(t, "returned", [obs EXCEPT !.receives = @ + 1])
       ELSE SessionExit(t, "NetworkException", Faulted)

\* --------------------------------------------- one-shot configuration commands
\* getVirtualWall, setCollisionBehavior (both overloads), setJointImpedance,
\* setCartesianImpedance, setGuidingMode, setK, setEE, setLoad and
\* automaticErrorRecovery: each is one impl_->executeCommand<Command>(...)
\* call and nothing else, so they are one action.  The request goes out
\* whoever owns the guard.
ConfigCommand(t) ==
    /\ pc[t] = "idle"
    /\ pc' = [pc EXCEPT ![t] = "config_response"]
    /\ call' = [call EXCEPT ![t] = [NoCall EXCEPT !.op = "config"]]
    /\ result' = [result EXCEPT ![t] = "none"]
    /\ obs' = [obs EXCEPT !.config_interleaved = @ \/ control_mutex_ # NoThread]
    /\ UNCHANGED <<control_mutex_, window>>

\* The reply to a configuration command: the method returns or throws.
ConfigResponse(t, r) ==
    /\ pc[t] = "config_response"
    /\ pc' = [pc EXCEPT ![t] = "idle"]
    /\ call' = [call EXCEPT ![t] = NoCall]
    /\ result' = [result EXCEPT ![t] =
                    Seen(CASE r = "success" -> "returned"
                           [] r = "rejected" -> "CommandException"
                           [] OTHER -> "NetworkException")]
    /\ UNCHANGED <<control_mutex_, obs, window>>

\* ------------------------------------- ControlLoop / MotionGeneratorLoop sessions
\* The overloads taking control callbacks construct a loop over *impl_ and run
\* it under the guard.  Which callbacks and which mode handling an overload has:
HasTorque(o) == o \in {"control_torque", "control_torque_motion"}
HasMotion(o) == o \in {"control_torque_motion", "control_motion_mode"}

\* Entry of control(control_callback).
ControlTorque(t) ==
    SessionEntry(t, [NoCall EXCEPT !.op = "control_torque"], "loop_update")

\* Entry of control(control_callback, motion_generator_callback): the four
\* overloads (JointPositions, JointVelocities, CartesianPose,
\* CartesianVelocities) differ in the motion type alone and are one action.
ControlTorqueMotion(t) ==
    SessionEntry(t, [NoCall EXCEPT !.op = "control_torque_motion"], "loop_update")

\* Entry of control(motion_generator_callback, controller_mode): again four
\* overloads that differ in the motion type alone.
ControlMotionMode(t, m) ==
    SessionEntry(t, [NoCall EXCEPT !.op = "control_motion_mode",
                                   !.controller_mode = m], "switch")

\* The callback a cycle invokes first / after the motion generator: a
\* callback that has signalled finish is held and not invoked again.
MotionPending(f) == HasMotion(f.op) /\ ~f.motion_finished
TorquePending(f) == HasTorque(f.op) /\ ~f.torque_finished
FirstCallback(f) == IF MotionPending(f) THEN "loop_motion" ELSE "loop_torque"
AfterMotion(f) == IF TorquePending(f) THEN "loop_torque" ELSE "loop_send"

\* Both callbacks (the one callback, when there is only one) have signalled finish.
AllFinished_either(f) == f.motion_finished \/ f.torque_finished
AllFinished(f) == ~MotionPending(f) /\ ~TorquePending(f)

\* Step 1 with a command sent after the channel faulted.
LoopUpdate_sendonfault(t, m) ==
    /\ pc[t] = "loop_update"
    /\ IF m # "fault"
       THEN /\ call' = [call EXCEPT ![t].robot_state =
                            State(obs.receives + 1, m, HasMode(call[t].op)),
                                    ![t].command_valid = TRUE]
            /\ pc' = [pc EXCEPT ![t] =
                        IF HasMode(call[t].op) THEN "loop_check" ELSE FirstCallback(call[t])]
            /\ obs' = Received(t, m)
            /\ UNCHANGED <<control_mutex_, result, window>>
       ELSE ReceiveFault(t, [Faulted EXCEPT !.sends = @ + 1])

\* Step 1 of a cycle: receive one state, or the channel faults.
LoopUpdate(t, m) ==
    /\ pc[t] = "loop_update"
    /\ IF m # "fault"
       THEN /\ call' = [call EXCEPT ![t].robot_state =
                            State(obs.receives + 1, m, HasMode(call[t].op)),
                                    ![t].command_valid = TRUE]
            /\ pc' = [pc EXCEPT ![t] =
                        IF HasMode(call[t].op) THEN "loop_check" ELSE FirstCallback(call[t])]
            /\ obs' = Received(t, m)
            /\ UNCHANGED <<control_mutex_, result, window>>
       ELSE ReceiveFault(t, Faulted)

\* The controller-mode state machine: a reported mode other than the
\* requested one faults the session.
LoopCheckMode(t) ==
    /\ pc[t] = "loop_check"
    /\ IF ModeChanged(t)
       THEN SessionExit(t, "ControlException", obs)
       ELSE /\ pc' = [pc EXCEPT ![t] = FirstCallback(call[t])]
            /\ UNCHANGED <<control_mutex_, call, result, obs, window>>

CallbackOutputs == {"continue", "finish", "nonfinite", "throw"}

\* The motion-generator callback is invoked with the cycle's state.
LoopMotionCallback(t, out) ==
    /\ pc[t] = "loop_motion"
    /\ out = "continue" => obs.receives < MaxCycles
    /\ LET o == [obs EXCEPT !.motion_calls = @ + 1,
                            !.motion_finishes = IF out = "finish" THEN @ + 1 ELSE @]
           f == [call[t] EXCEPT !.motion_finished = (out = "finish"),
                                !.command_valid = @ /\ out # "nonfinite"]
       IN  IF out = "throw"
           THEN SessionExit(t, "callback_exception", o)
           ELSE /\ call' = [call EXCEPT ![t] = f]
                /\ pc' = [pc EXCEPT ![t] = AfterMotion(f)]
                /\ obs' = o
                /\ UNCHANGED <<control_mutex_, result, window>>

\* The torque callback is invoked with the cycle's state.
LoopTorqueCallback(t, out) ==
    /\ pc[t] = "loop_torque"
    /\ out = "continue" => obs.receives < MaxCycles
    /\ LET o == [obs EXCEPT !.torque_calls = @ + 1,
                            !.torque_finishes = IF out = "finish" THEN @ + 1 ELSE @]
           f == [call[t] EXCEPT !.torque_finished = (out = "finish"),
                                !.command_valid = @ /\ out # "nonfinite"]
       IN  IF out = "throw"
           THEN SessionExit(t, "callback_exception", o)
           ELSE /\ call' = [call EXCEPT ![t] = f]
                /\ pc' = [pc EXCEPT ![t] = "loop_send"]
                /\ obs' = o
                /\ UNCHANGED <<control_mutex_, result, window>>

\* Steps 3-5 with the command sent before it is validated.
LoopSend_sendfirst(t, ack) ==
    /\ pc[t] = "loop_send"
    /\ IF ~ack
       THEN SessionExit(t, "NetworkException", obs)
       ELSE IF ~call[t].command_valid
       THEN SessionExit(t, "numeric_fault", [obs EXCEPT !.sends = @ + 1])
       ELSE /\ obs' = [obs EXCEPT !.sends = @ + 1]
            /\ pc' = [pc EXCEPT ![t] =
                        IF AllFinished(call[t]) THEN "loop_terminal" ELSE "loop_update"]
            /\ call' = [call EXCEPT ![t].robot_state = NoState]
            /\ UNCHANGED <<control_mutex_, result, window>>

\* Steps 3-5 of a cycle: build the command, validate it, send it.  A
\* non-finite command is a numeric fault raised before the send.
LoopSend(t, ack) ==
    /\ pc[t] = "loop_send"
    /\ IF ~call[t].command_valid
       THEN SessionExit(t, "numeric_fault", obs)
       ELSE IF ~ack
       THEN SessionExit(t, "NetworkException", obs)
       ELSE /\ obs' = [obs EXCEPT !.sends = @ + 1]
            /\ pc' = [pc EXCEPT ![t] =
                        IF AllFinished(call[t]) THEN "loop_terminal" ELSE "loop_update"]
            /\ call' = [call EXCEPT ![t].robot_state = NoState]
            /\ UNCHANGED <<control_mutex_, result, window>>

\* Step 6 without the terminal command: the loop returns on finish.
LoopTerminal_nosend(t, ack) ==
    /\ pc[t] = "loop_terminal"
    /\ IF ack
       THEN SessionExit(t, "returned", obs)
       ELSE SessionExit(t, "NetworkException", obs)

\* Step 6: the terminal command cycle, then the loop returns.
LoopTerminal(t, ack) ==
    /\ pc[t] = "loop_terminal"
    /\ IF ack
       THEN SessionExit(t, "returned",
                        [obs EXCEPT !.sends = @ + 1, !.terminal = @ + 1])
       ELSE SessionExit(t, "NetworkException", obs)

\* ------------------------------------------------------------ specification
Next ==
    \E t \in Threads :
        \/ OneHandle /\ \E m \in ControllerModeValues : ControlRead(t, m)
        \/ OneHandle /\ Switch(t)
        \/ OneHandle /\ ExecuteCommandRequest(t)
        \/ OneHandle /\ \E r \in CommandReplies : ExecuteCommandResponse(t, r)
        \/ OneHandle /\ \E m \in ReceiveOutcomes : Update(t, m)
        \/ OneHandle /\ CheckMode(t)
        \/ OneHandle /\ \E ret \in {"true", "false", "throw"} : ReadCallback(t, ret)
        \/ OneHandle /\ Read(t)
        \/ OneHandle /\ ReadOnce(t)
        \/ OneHandle /\ \E ok \in BOOLEAN : ReadOnceReceive(t, ok)
        \/ OneHandle /\ ConfigCommand(t)
        \/ OneHandle /\ \E r \in CommandReplies : ConfigResponse(t, r)
        \/ OneHandle /\ ControlTorque(t)
        \/ OneHandle /\ ControlTorqueMotion(t)
        \/ OneHandle /\ \E m \in ControllerModeValues : ControlMotionMode(t, m)
        \/ OneHandle /\ \E m \in ReceiveOutcomes : LoopUpdate(t, m)
        \/ OneHandle /\ LoopCheckMode(t)
        \/ OneHandle /\ \E out \in CallbackOutputs : LoopMotionCallback(t, out)
        \/ OneHandle /\ \E out \in CallbackOutputs : LoopTorqueCallback(t, out)
        \/ OneHandle /\ \E ack \in BOOLEAN : LoopSend(t, ack)
        \/ OneHandle /\ \E ack \in BOOLEAN : LoopTerminal(t, ack)

Spec == Init /\ [][Next]_vars

\* ------------------------------------------------------- fair scheduling
\* The callers of the read loops alone: every thread calls read and
\* control(controller_mode, read_callback), and nothing else.
\* A call of one of the two entry points by thread t.
ReadStart(t) ==
    \/ OneHandle /\ \E m \in ControllerModeValues : ControlRead(t, m)
    \/ OneHandle /\ Read(t)

\* A step of thread t inside the body of a read session.
ReadBody(t) ==
    \/ OneHandle /\ Switch(t)
    \/ OneHandle /\ ExecuteCommandRequest(t)
    \/ OneHandle /\ \E r \in CommandReplies : ExecuteCommandResponse(t, r)
    \/ OneHandle /\ \E m \in ReceiveOutcomes : Update(t, m)
    \/ OneHandle /\ CheckMode(t)
    \/ OneHandle /\ \E ret \in {"true", "false", "throw"} : ReadCallback(t, ret)

ReadNext == \E t \in Threads : ReadStart(t) \/ ReadBody(t)

\* Every thread inside a session body is scheduled again (the channel
\* answers or times out, the callback returns), and every thread keeps
\* calling the entry points, whether the call is admitted or refused.
FairSpec ==
    /\ Init
    /\ [][ReadNext]_vars
    /\ \A t \in Threads : WF_vars(ReadBody(t)) /\ SF_vars(ReadStart(t))

\* ------------------------------------------------------ moving a handle
\* The session variables of Spec, which no call of MoveSpec touches.
NoSession == UNCHANGED <<control_mutex_, pc, call, result, obs, window>>

\* A null impl_ was dereferenced and the process died.
Crashed == \E t \in Threads : movers[t].pc = "crashed"

\* The guard of handle h after thread t's lock on it was destroyed.
Unlocked(h, t) ==
    IF robots[h].control_mutex_ = t THEN NoThread ELSE robots[h].control_mutex_

\* Robot::read on handle h: the try_lock, then the loop.
ReadOn(t, h) ==
    /\ ~Crashed
    /\ movers[t].pc = "idle"
    /\ robots[h].state = "alive"
    /\ IF robots[h].control_mutex_ = NoThread
       THEN /\ robots' = [robots EXCEPT ![h].control_mutex_ = t]
            /\ movers' = [movers EXCEPT ![t] =
                            [NoMove EXCEPT !.pc = "read_update", !.op = "read",
                                           !.this = h, !.impl = robots[h].impl_]]
       ELSE /\ movers' = [movers EXCEPT ![t] =
                            [NoMove EXCEPT !.op = "read",
                                           !.result = "InvalidOperationException"]]
            /\ UNCHANGED robots
    /\ NoSession

\* One iteration of the loop: impl_->update() on the handle's impl_, then
\* the callback, which asks for another state or ends the session.
\* Dereferencing a null impl_ is undefined: the process dies, or the call
\* goes on with whatever it finds.
UpdateOn(t, again, dies) ==
    /\ ~Crashed
    /\ movers[t].pc = "read_update"
    /\ again => movers[t].receives + 1 < MaxCycles
    /\ dies => robots[movers[t].this].impl_ = NoImpl
    /\ LET h == movers[t].this
       IN  IF dies
           THEN /\ movers' = [movers EXCEPT ![t].pc = "crashed"]
                /\ UNCHANGED robots
           ELSE IF again
           THEN /\ movers' = [movers EXCEPT ![t].receives = @ + 1]
                /\ UNCHANGED robots
           ELSE /\ movers' = [movers EXCEPT ![t] =
                                [NoMove EXCEPT !.op = "read", !.result = "returned"]]
                /\ robots' = [robots EXCEPT ![h].control_mutex_ = Unlocked(h, t)]
    /\ NoSession

\* Robot c(std::move(other)): the constructor is entered for the storage n.
MoveConstruct(t, n, o) ==
    /\ ~Crashed
    /\ movers[t].pc = "idle"
    /\ robots[n].state = "raw"
    /\ robots[o].state = "alive"
    /\ robots' = [robots EXCEPT ![n].state = "constructing"]
    /\ movers' = [movers EXCEPT ![t] =
                    [NoMove EXCEPT !.pc = "ctor_lock", !.op = "move_construct",
                                   !.this = n, !.other = o]]
    /\ NoSession

\* The same constructor without the lock on other.control_mutex_.
CtorLock_nolock(t) ==
    /\ ~Crashed
    /\ movers[t].pc = "ctor_lock"
    /\ movers' = [movers EXCEPT ![t].pc = "ctor_move"]
    /\ UNCHANGED robots
    /\ NoSession

\* std::lock_guard<std::mutex> _(other.control_mutex_): waits for the guard.
CtorLock(t) ==
    /\ ~Crashed
    /\ movers[t].pc = "ctor_lock"
    /\ robots[movers[t].other].control_mutex_ = NoThread
    /\ robots' = [robots EXCEPT ![movers[t].other].control_mutex_ = t]
    /\ movers' = [movers EXCEPT ![t].pc = "ctor_move"]
    /\ NoSession

\* impl_ = std::move(other.impl_); then the lock_guard is destroyed.
CtorMove(t) ==
    /\ ~Crashed
    /\ movers[t].pc = "ctor_move"
    /\ LET n == movers[t].this
           o == movers[t].other
       IN  /\ robots' = [robots EXCEPT
                  ![n] = [state |-> "alive", control_mutex_ |-> NoThread,
                          impl_ |-> robots[o].impl_],
                  ![o] = [@ EXCEPT !.impl_ = NoImpl,
                                   !.control_mutex_ = Unlocked(o, t)]]
           /\ movers' = [movers EXCEPT ![t] =
                           [NoMove EXCEPT !.op = "move_construct",
                                          !.result = "returned"]]
    /\ NoSession

\* th = std::move(o): if (&other != this) { ... } return *this;
MoveAssign(t, th, o) ==
    /\ ~Crashed
    /\ movers[t].pc = "idle"
    /\ robots[th].state = "alive"
    /\ robots[o].state = "alive"
    /\ movers' = [movers EXCEPT ![t] =
                    IF th = o
                    THEN [NoMove EXCEPT !.op = "move_assign", !.result = "returned"]
                    ELSE [NoMove EXCEPT !.pc = "assign_lock", !.op = "move_assign",
                                        !.this = th, !.other = o]]
    /\ UNCHANGED robots
    /\ NoSession

\* std::lock(this_lock, other_lock) locks one of the two mutexes, waiting
\* for it, ...
AssignLockFirst(t, h) ==
    /\ ~Crashed
    /\ movers[t].pc = "assign_lock"
    /\ h \in {movers[t].this, movers[t].other}
    /\ robots[h].control_mutex_ = NoThread
    /\ robots' = [robots EXCEPT ![h].control_mutex_ = t]
    /\ movers' = [movers EXCEPT ![t].pc = "assign_try", ![t].first = h]
    /\ NoSession

\* The mutex std::lock has still to take.
Second(t) == CHOOSE h \in {movers[t].this, movers[t].other} : h # movers[t].first

\* The two mutexes locked in a fixed order: the second one is waited for
\* with the first one held.
AssignTryOther_wait(t) ==
    /\ ~Crashed
    /\ movers[t].pc = "assign_try"
    /\ robots[Second(t)].control_mutex_ = NoThread
    /\ robots' = [robots EXCEPT ![Second(t)].control_mutex_ = t]
    /\ movers' = [movers EXCEPT ![t].pc = "assign_move"]
    /\ NoSession

\* ... and tries the other one: when that is owned it unlocks the first and
\* starts again.
AssignTryOther(t) ==
    /\ ~Crashed
    /\ movers[t].pc = "assign_try"
    /\ IF robots[Second(t)].control_mutex_ = NoThread
       THEN /\ robots' = [robots EXCEPT ![Second(t)].control_mutex_ = t]
            /\ movers' = [movers EXCEPT ![t].pc = "assign_move"]
       ELSE /\ robots' = [robots EXCEPT ![movers[t].first].control_mutex_ = NoThread]
            /\ movers' = [movers EXCEPT ![t].pc = "assign_lock",
                                        ![t].first = "none"]
    /\ NoSession

\* impl_ = std::move(other.impl_); then both unique_locks are destroyed.
AssignMove(t) ==
    /\ ~Crashed
    /\ movers[t].pc = "assign_move"
    /\ LET th == movers[t].this
           o == movers[t].other
       IN  /\ robots' = [robots EXCEPT
                  ![th] = [@ EXCEPT !.impl_ = robots[o].impl_,
                                    !.control_mutex_ = Unlocked(th, t)],
                  ![o] = [@ EXCEPT !.impl_ = NoImpl,
                                   !.control_mutex_ = Unlocked(o, t)]]
           /\ movers' = [movers EXCEPT ![t] =
                           [NoMove EXCEPT !.op = "move_assign",
                                          !.result = "returned"]]
    /\ NoSession

\* A step of thread t inside a call on the handles.
MoverStep(t) ==
    \/ \E again, dies \in BOOLEAN : UpdateOn(t, again, dies)
    \/ CtorLock(t)
    \/ CtorMove(t)
    \/ \E h \in Handles : AssignLockFirst(t, h)
    \/ AssignTryOther(t)
    \/ AssignMove(t)

MoveNext ==
    \E t \in Threads :
        \/ \E h \in Handles : ReadOn(t, h)
        \/ \E n, o \in Handles : MoveConstruct(t, n, o)
        \/ \E th, o \in Assigned : MoveAssign(t, th, o)
        \/ MoverStep(t)

MoveSpec == Init /\ [][MoveNext]_vars

\* ------------------------------------------------------------------ claims
\* The thread of the session obs describes is still inside it.
Running == obs.outcome = "running" /\ obs.thread \in Threads
\* The session obs describes has ended.
Ended == obs.outcome # "running"
\* obs describes a session of one of the two read loops.
ReadSession == obs.op \in {"read", "control_read"}

\* C1: at most one thread is inside a session body at any instant, and it is
\* the owner of the guard; of the start attempts made between two releases
\* of the guard exactly one succeeds and all the others fail session-busy.
C1_OneSessionAtATime ==
    /\ \A s, t \in Threads : InSession(s) /\ InSession(t) => s = t
    /\ \A t \in Threads : InSession(t) => control_mutex_ = t
    /\ window.succ <= 1
    /\ window.succ = 1 <=> control_mutex_ # NoThread
    /\ window.busy > 0 => window.succ = 1

C1_Witness ==
    /\ window.succ = 1
    /\ window.busy = MaxBusy
    /\ \E s, t \in Threads : InSession(s) /\ result[t] = "InvalidOperationException"

\* C2: a start attempt made while the guard is owned fails at once with
\* InvalidOperationException and changes nothing else: the owner of the
\* guard, every thread's position and frame, and everything the channel and
\* the callbacks have seen stay as they were; no idle thread enters a
\* session while the guard is owned.
C2_BusyStartHasNoEffect ==
    [][ /\ window'.busy > window.busy =>
              /\ control_mutex_ # NoThread
              /\ UNCHANGED <<control_mutex_, pc, call, obs>>
              /\ \E t \in Threads :
                    /\ pc[t] = "idle"
                    /\ result' = [result EXCEPT ![t] = "InvalidOperationException"]
        /\ \A t \in Threads :
              /\ (control_mutex_ # NoThread /\ pc[t] = "idle" /\ pc'[t] # "idle")
                    => pc'[t] = "config_response"
              /\ (result'[t] = "InvalidOperationException" /\ result[t] # result'[t])
                    => window'.busy > window.busy
      ]_vars

C2_Witness ==
    \E s, t \in Threads :
        /\ InSession(s)
        /\ obs.receives >= 1
        /\ window.busy >= 1
        /\ pc[t] = "idle"
        /\ result[t] = "InvalidOperationException"

\* C3: a session that acquired the guard releases it exactly once when it
\* ends, whichever way it ends; no thread outside a session owns the guard,
\* so once a session has ended the guard is free and the next start attempt
\* acquires it.
C3_GuardReleasedOnEveryExit ==
    /\ \A t \in Threads : control_mutex_ = t => InSession(t)
    /\ Running => obs.released = 0
    /\ Ended => /\ obs.released = 1
                /\ control_mutex_ = NoThread
                /\ owns_lock
                /\ window = [succ |-> 0, busy |-> 0]
                /\ obs.outcome \in {"returned", "invalid_argument", "CommandException",
                                    "ControlException", "NetworkException",
                                    "callback_exception", "numeric_fault"}

C3_Witness ==
    /\ obs.outcome = "callback_exception"
    /\ obs.op = "control_read"
    /\ obs.released = 1
    /\ control_mutex_ = NoThread
    /\ \E t \in Threads : t # obs.thread /\ result[t] = "InvalidOperationException"

\* C4: no configuration request goes out on the channel while a session
\* owns the guard (a configuration command issued during a session is
\* rejected by the guard).
C4_ConfigRejectedDuringSession == ~obs.config_interleaved

\* C5: in control(controller_mode, read_callback), once the state just
\* received reports a mode other than the requested one and has been
\* checked, the session has ended with ControlException; it ended on the
\* cycle of that state, with one callback invocation fewer than states
\* received, and the callback has only ever seen states of the requested mode.
C5_ModeMismatchEndsSession ==
    obs.op = "control_read" =>
        LET t == obs.thread
            mismatch == obs.last_mode \notin {"none", obs.requested}
        IN  /\ (mismatch /\ pc[t] # "check") => obs.outcome = "ControlException"
            /\ obs.outcome = "ControlException" =>
                  /\ mismatch
                  /\ ~InSession(t)
                  /\ obs.receives >= 1
                  /\ obs.callbacks = obs.receives - 1
                  /\ obs.sends = 0
            /\ obs.callbacks >= 1 => obs.cb_mode = obs.requested

C5_Witness ==
    /\ obs.op = "control_read"
    /\ obs.outcome = "ControlException"
    /\ obs.receives = MaxCycles
    /\ obs.callbacks = MaxCycles - 1

\* C6: control(controller_mode, read_callback) with a mode that is neither
\* joint nor Cartesian impedance never gets past the switch: it ends with
\* invalid_argument, and no SetControllerMode request is sent, no state
\* received and no callback invoked.
C6_InvalidModeSendsNothing ==
    obs.op = "control_read" =>
        LET t == obs.thread
            invalid == obs.requested \notin {"kJointImpedance", "kCartesianImpedance"}
        IN  /\ invalid =>
                  /\ \/ Running /\ pc[t] = "switch"
                     \/ obs.outcome = "invalid_argument" /\ ~InSession(t)
                  /\ obs.mode_cmds = 0
                  /\ obs.receives = 0
                  /\ obs.callbacks = 0
                  /\ obs.sends = 0
            /\ obs.outcome = "invalid_argument" => invalid

C6_Witness ==
    /\ obs.op = "control_read"
    /\ obs.outcome = "invalid_argument"
    /\ obs.requested = "kOtherMode"
    /\ result[obs.thread] = "threw"
    /\ control_mutex_ = NoThread

\* C7: a session started with a controller mode sends the SetControllerMode
\* request exactly once: after it acquired the guard and before the first
\* state is received; when the command is rejected no state is received and
\* no callback invoked.
C7_ModeSetOncePerSession ==
    HasMode(obs.op) =>
        LET t == obs.thread
        IN  /\ obs.mode_cmds <= 1
            /\ obs.receives >= 1 => obs.mode_cmds = 1
            /\ (Running /\ pc[t] \in {"switch", "executeCommand"}) =>
                  obs.mode_cmds = 0 /\ obs.receives = 0
            /\ (Running /\ obs.mode_cmds = 1) => control_mutex_ = t
            /\ (Running /\ pc[t] \notin {"switch", "executeCommand"}) => obs.mode_cmds = 1
            /\ obs.outcome \notin {"running", "invalid_argument"} => obs.mode_cmds = 1
            /\ obs.outcome = "CommandException" =>
                  obs.receives = 0 /\ obs.callbacks = 0 /\ obs.motion_calls = 0

C7_Witness ==
    /\ obs.op = "control_read"
    /\ obs.outcome = "returned"
    /\ obs.mode_cmds = 1
    /\ obs.receives = MaxCycles

\* C8: in a read session receive and callback alternate: the k-th callback
\* invocation gets the k-th state received, before the next receive; the
\* loop goes on after a true and ends normally right after the first false,
\* so a session that returned has received as many states as it has invoked
\* the callback.
C8_ReceiveThenCallback ==
    ReadSession =>
        LET t == obs.thread
        IN  /\ (Running /\ pc[t] = "update") =>
                  /\ obs.callbacks = obs.receives
                  /\ obs.callbacks >= 1 => obs.last_ret = "true"
            /\ (Running /\ pc[t] \in {"check", "callback"}) =>
                  /\ obs.callbacks = obs.receives - 1
                  /\ call[t].robot_state.id = obs.receives
            /\ obs.callbacks >= 1 => obs.cb_arg = obs.callbacks
            /\ obs.last_ret = "false" <=> obs.outcome = "returned"
            /\ obs.outcome = "returned" =>
                  obs.receives = obs.callbacks /\ ~InSession(t)
            /\ (obs.last_ret = "true" /\ Ended) => obs.receives = obs.callbacks + 1

C8_Witness ==
    /\ obs.op = "read"
    /\ obs.outcome = "returned"
    /\ obs.callbacks = MaxCycles
    /\ obs.receives = MaxCycles

\* C9: in a read session a channel fault on the state receive of cycle k
\* ends the session with NetworkException: the callback has been invoked
\* k-1 times, and there is no second receive attempt after the fault.
C9_ChannelFaultEndsReadSession ==
    ReadSession =>
        LET t == obs.thread
        IN  /\ obs.faults <= 1
            /\ obs.faults = 1 =>
                  /\ obs.outcome = "NetworkException"
                  /\ ~InSession(t)
                  /\ obs.callbacks = obs.receives - 1
            /\ (obs.outcome = "NetworkException" /\ obs.receives >= 1) => obs.faults = 1

C9_Witness ==
    /\ obs.op = "read"
    /\ obs.faults = 1
    /\ obs.outcome = "NetworkException"
    /\ obs.receives = MaxCycles
    /\ obs.callbacks = MaxCycles - 1

\* C10: in a session with a torque and a motion-generator callback the
\* terminal command is sent only once both callbacks have signalled finish,
\* and the session returns normally exactly when it was sent; while one of
\* them has not signalled finish the loop keeps cycling and invokes that
\* callback in every cycle.
C10_TerminalIffBothFinished ==
    obs.op = "control_torque_motion" =>
        LET t == obs.thread
            both == obs.torque_finishes >= 1 /\ obs.motion_finishes >= 1
        IN  /\ obs.terminal <= 1
            /\ obs.terminal = 1 => both
            /\ obs.terminal = 1 <=> obs.outcome = "returned"
            /\ (Running /\ pc[t] = "loop_terminal") => both
            /\ (Running /\ both) => pc[t] \in {"loop_send", "loop_terminal"}
            /\ (Ended /\ both) => obs.outcome \in {"returned", "NetworkException"}
            /\ (Running /\ pc[t] = "loop_send") =>
                  /\ obs.torque_finishes = 0 => obs.torque_calls = obs.receives
                  /\ obs.motion_finishes = 0 => obs.motion_calls = obs.receives
            /\ (Running /\ pc[t] = "loop_update") => ~both /\ obs.sends = obs.receives

C10_Witness ==
    /\ obs.op = "control_torque_motion"
    /\ obs.outcome = "returned"
    /\ obs.terminal = 1
    /\ obs.motion_calls = 1
    /\ obs.torque_calls = MaxCycles

\* obs describes a session that runs a control loop.
LoopSession == obs.op \in {"control_torque", "control_torque_motion", "control_motion_mode"}

\* C11: a session with the torque callback alone that meets no fault and
\* whose callback first signals finish on its n-th invocation sends n
\* regular commands and then one terminal command, n+1 in all, invokes the
\* callback n times, once per state received, and returns normally.
C11_PureTorqueSendsNPlusOne ==
    obs.op = "control_torque" =>
        LET t == obs.thread
        IN  /\ obs.torque_finishes <= 1
            /\ (Running /\ pc[t] = "loop_update") =>
                  /\ obs.torque_finishes = 0
                  /\ obs.torque_calls = obs.receives
                  /\ obs.sends = obs.receives
            /\ (Running /\ pc[t] = "loop_terminal") =>
                  /\ obs.torque_finishes = 1
                  /\ obs.sends = obs.torque_calls
                  /\ obs.terminal = 0
            /\ obs.outcome = "returned" =>
                  /\ ~InSession(t)
                  /\ obs.torque_finishes = 1
                  /\ obs.torque_calls = obs.receives
                  /\ obs.terminal = 1
                  /\ obs.sends = obs.torque_calls + 1
                  /\ obs.faults = 0
            /\ (Ended /\ obs.torque_finishes = 1) =>
                  obs.outcome \in {"returned", "NetworkException"}

C11_Witness ==
    /\ obs.op = "control_torque"
    /\ obs.outcome = "returned"
    /\ obs.torque_calls = MaxCycles
    /\ obs.sends = MaxCycles + 1
    /\ obs.terminal = 1

\* C12: in a control session a channel fault on the state receive of cycle
\* k ends the session with NetworkException after exactly k-1 commands
\* sent: none is sent on or after cycle k, and no terminal command.
C12_ReceiveFaultStopsSends ==
    LoopSession =>
        LET t == obs.thread
        IN  /\ obs.faults <= 1
            /\ obs.faults = 1 =>
                  /\ obs.outcome = "NetworkException"
                  /\ ~InSession(t)
                  /\ obs.sends = obs.receives - 1
                  /\ obs.terminal = 0
                  /\ obs.torque_calls <= obs.receives - 1
                  /\ obs.motion_calls <= obs.receives - 1

C12_Witness ==
    /\ obs.op = "control_torque"
    /\ obs.faults = 1
    /\ obs.outcome = "NetworkException"
    /\ obs.receives = MaxCycles
    /\ obs.sends = MaxCycles - 1

\* C13: in a control session a callback output that is not finite on cycle
\* k ends the session with a numeric fault before anything is sent for
\* cycle k: the commands sent are those of cycles 1..k-1, and no terminal
\* command is sent.
C13_NonFiniteCommandNotSent ==
    LoopSession =>
        LET t == obs.thread
        IN  /\ (Running /\ pc[t] \in {"loop_torque", "loop_send"}
                        /\ ~call[t].command_valid) =>
                  obs.sends = obs.receives - 1
            /\ (Running /\ pc[t] \in {"loop_update", "loop_terminal"}) =>
                  obs.sends = obs.receives
            /\ (Running /\ pc[t] = "loop_terminal") => call[t].command_valid
            /\ obs.outcome = "numeric_fault" =>
                  /\ ~InSession(t)
                  /\ obs.receives >= 1
                  /\ obs.sends = obs.receives - 1
                  /\ obs.terminal = 0
                  /\ obs.faults = 0

C13_Witness ==
    /\ obs.op = "control_torque"
    /\ obs.outcome = "numeric_fault"
    /\ obs.receives = MaxCycles
    /\ obs.torque_calls = MaxCycles
    /\ obs.sends = MaxCycles - 1

\* C14 (as claimed): once a read session has ended, every caller that was
\* refused and keeps retrying is eventually admitted.
C14_RetryingCallerAdmitted ==
    \A t \in Threads :
        (ReadSession /\ Ended /\ result[t] = "InvalidOperationException") ~> InSession(t)

\* How a read session that got into its loop has ended.
C14_EndsOnlyBy ==
    ReadSession =>
        /\ (Ended /\ obs.receives >= 1) =>
              \/ obs.outcome = "returned" /\ obs.last_ret = "false"
              \/ obs.outcome = "ControlException"
                    /\ obs.last_mode \notin {"none", obs.requested}
              \/ obs.outcome = "NetworkException" /\ obs.faults = 1
              \/ obs.outcome = "callback_exception" /\ obs.last_ret = "throw"
        /\ (Ended /\ obs.last_ret = "true") =>
              /\ obs.outcome \in {"ControlException", "NetworkException"}
              /\ obs.receives = obs.callbacks + 1
        /\ Ended => control_mutex_ = NoThread /\ ~InSession(obs.thread)

\* C14: a read session ends only by the callback returning false, a
\* controller-mode fault, a channel fault or an exception of the callback;
\* after a true the loop receives the next state.  When it ends the guard
\* is free, and under fair scheduling a free guard is eventually taken
\* again: a caller that keeps retrying is admitted, or another caller is
\* admitted before it (the guard does not order the callers).
C14_ReadSessionEndsAndFreesGuard ==
    /\ []C14_EndsOnlyBy
    /\ (control_mutex_ = NoThread) ~> (control_mutex_ # NoThread)
    /\ \A t \in Threads :
          (ReadSession /\ Ended /\ result[t] = "InvalidOperationException")
              ~> (InSession(t) \/ \E s \in Threads : s # t /\ InSession(s))

C14_Witness ==
    /\ obs.op = "read"
    /\ obs.outcome = "returned"
    /\ obs.last_ret = "false"
    /\ obs.callbacks = MaxCycles
    /\ control_mutex_ = NoThread
    /\ \E t \in Threads : t # obs.thread /\ result[t] = "InvalidOperationException"

\* C15: in control(controller_mode, read_callback) the guard is tried
\* before the mode is looked at: a call that finds the guard owned by
\* another thread ends with InvalidOperationException whatever its mode,
\* never with invalid_argument; the switch throws, and the
\* SetControllerMode request goes out, only in the thread that owns the guard.
C15_GuardCheckedBeforeMode ==
    [][ /\ \A t \in Threads :
              (/\ control_mutex_ \notin {NoThread, t}
               /\ pc[t] = "idle"
               /\ pc'[t] = "idle"
               /\ result'[t] # result[t])
                  => /\ result'[t] = "InvalidOperationException"
                     /\ UNCHANGED <<control_mutex_, pc, call, obs>>
        /\ obs'.mode_cmds > obs.mode_cmds =>
              \E t \in Threads :
                  /\ control_mutex_ = t
                  /\ control_mutex_' = t
                  /\ pc[t] = "executeCommand"
                  /\ obs.thread = t
        /\ (obs'.outcome = "invalid_argument" /\ obs.outcome # "invalid_argument") =>
              \E t \in Threads :
                  /\ control_mutex_ = t
                  /\ pc[t] = "switch"
                  /\ obs.thread = t
      ]_vars

C15_Witness ==
    \E s, t \in Threads :
        /\ obs.op = "control_read"
        /\ obs.thread = s
        /\ pc[s] = "awaitResponse"
        /\ obs.mode_cmds = 1
        /\ control_mutex_ = s
        /\ window.busy >= 1
        /\ pc[t] = "idle"
        /\ result[t] = "InvalidOperationException"

\* Thread t is inside a call on the handles and cannot take a step.
Blocked(t) == movers[t].pc # "idle" /\ ~ENABLED MoverStep(t)

\* The guards thread t's call locks and t does not own.
Needs(t) ==
    {h \in {movers[t].this, movers[t].other} \cap Handles : robots[h].control_mutex_ # t}

\* Some threads wait for guards that only threads among them own.
Deadlocked ==
    \E S \in SUBSET Threads :
        /\ S # {}
        /\ \A t \in S :
              /\ Blocked(t)
              /\ Needs(t) # {}
              /\ \A h \in Needs(t) : robots[h].control_mutex_ \in S

\* Thread t is in a read session on handle h.
ReadingOn(t, h) == movers[t].pc = "read_update" /\ movers[t].this = h

\* C16: while a session owns a handle's guard the handle keeps the
\* implementation object it had when the session started, so every receive
\* of the session goes to that object; a move constructor or move
\* assignment that involves the handle waits for the guard (it never fails)
\* and moves impl_ only while it owns the guards it locks.
C16_ImplNotMovedDuringSession ==
    \A t \in Threads :
        /\ movers[t].pc = "read_update" =>
              /\ robots[movers[t].this].state = "alive"
              /\ robots[movers[t].this].control_mutex_ = t
              /\ robots[movers[t].this].impl_ = movers[t].impl
        /\ movers[t].pc = "ctor_lock" =>
              ((\E s \in Threads : ReadingOn(s, movers[t].other)) => ~ENABLED CtorLock(t))
        /\ movers[t].pc = "ctor_move" =>
              /\ robots[movers[t].other].control_mutex_ = t
              /\ \A s \in Threads : ~ReadingOn(s, movers[t].other)
        /\ movers[t].pc = "assign_move" =>
              /\ robots[movers[t].this].control_mutex_ = t
              /\ robots[movers[t].other].control_mutex_ = t
              /\ \A s \in Threads :
                    ~ReadingOn(s, movers[t].this) /\ ~ReadingOn(s, movers[t].other)
        /\ movers[t].op \in {"move_construct", "move_assign"} =>
              movers[t].result # "InvalidOperationException"

C16_Witness ==
    \E s, t \in Threads :
        /\ movers[s].pc = "read_update"
        /\ movers[s].receives >= 1
        /\ movers[s].impl # NoImpl
        /\ movers[t].pc = "ctor_lock"
        /\ movers[t].other = movers[s].this

\* C17: move assignment never deadlocks on the two guards: a thread that
\* owns one of them or both always has a step to take, so no set of
\* threads waits for guards its own members own, and a = move(b) running
\* together with b = move(a) both go on; a self-assignment is over in one
\* step that locks nothing and leaves every handle as it was.
C17_MoveAssignNoDeadlock ==
    /\ [](~Crashed =>
            /\ ~Deadlocked
            /\ \A t \in Threads :
                  /\ movers[t].pc \in {"assign_try", "assign_move"} => ~Blocked(t)
                  /\ movers[t].pc \in {"assign_lock", "assign_try", "assign_move"} =>
                        movers[t].this # movers[t].other)
    /\ [][\A t \in Threads :
              (/\ movers[t].pc = "idle"
               /\ movers'[t].pc = "idle"
               /\ movers'[t] # movers[t]
               /\ movers'[t].op = "move_assign")
                  => /\ UNCHANGED robots
                     /\ movers'[t].result = "returned"]_vars

C17_Witness ==
    \E s, t \in Threads :
        /\ movers[t].pc = "assign_try"
        /\ movers[t].this = "a" /\ movers[t].other = "b" /\ movers[t].first = "a"
        /\ movers[s].pc = "assign_try"
        /\ movers[s].this = "b" /\ movers[s].other = "a" /\ movers[s].first = "b"
        /\ \A u \in Threads : movers[u].pc # "read_update"

====
